---- MODULE Spec2Model ----
(***************************************************************************)
(* Model of mypy/maptype.py: mapping an Instance to an instantiation of    *)
(* one of its (nominal) superclasses.                                      *)
(*                                                                         *)
(* Every function of maptype.py is an operator of the same name, taking    *)
(* the class table (the TypeInfo graph) as its first parameter `cls`.      *)
(* A Python call either returns or raises: operators that model a function *)
(* that can raise yield a record [exc, ret], exc = "none" on a normal      *)
(* return.                                                                 *)
(***************************************************************************)
EXTENDS Integers, Sequences, FiniteSets, TLC

VARIABLES classes, instance, superclass, op, out, tasks

vars == <<classes, instance, superclass, op, out, tasks>>

(***************************************************************************)
(* Bounds of the model.                                                    *)
(***************************************************************************)
\* largest number of arguments an input instance carries
MaxArgs == 2

\* number of tasks that call into maptype.py side by side
NumTasks == 2

\* the interpreter's recursion limit: a call nested deeper raises
\* RecursionError
MaxDepth == 6

(***************************************************************************)
(* mypy.types: the type expressions maptype.py handles.                    *)
(***************************************************************************)
NoneValue == [kind |-> "None"]

Instance(typ, args) == [kind |-> "Instance", type |-> typ, args |-> args]

TypeVarType(id) == [kind |-> "TypeVar", id |-> id]

AnyType(type_of_any) == [kind |-> "Any", type_of_any |-> type_of_any]

TupleType(items) == [kind |-> "Tuple", items |-> items]

\* TypeOfAny tags
from_error == "from_error"
unannotated == "unannotated"
special_form == "special_form"

\* mypy.nodes.TypeInfo: bases (Instances over the class's own type
\* variables), type_vars (names), defn_type_vars (the ids of the binders
\* of defn.type_vars), tuple_type, special_alias.
TypeInfo(bases, type_vars, defn_type_vars, tuple_type, special_alias) ==
    [bases |-> bases, type_vars |-> type_vars, defn_type_vars |-> defn_type_vars,
     tuple_type |-> tuple_type, special_alias |-> special_alias]

TypeAlias(is_recursive) == [kind |-> "TypeAlias", is_recursive |-> is_recursive]

\* a class that is not tuple-shaped
PlainClass(bases, type_vars) ==
    TypeInfo(bases, type_vars, [i \in 1..Len(type_vars) |-> i], NoneValue, NoneValue)

\* a class defined over a tuple shape (named tuple): tuple_type and
\* special_alias are set together
TupleClass(bases, type_vars, items, is_recursive) ==
    TypeInfo(bases, type_vars, [i \in 1..Len(type_vars) |-> i],
             TupleType(items), TypeAlias(is_recursive))

(***************************************************************************)
(* Sequence helpers.                                                       *)
(***************************************************************************)
RECURSIVE Flatten(_)
\* concatenation of a sequence of sequences (list.extend in a loop)
Flatten(ss) == IF ss = <<>> THEN <<>> ELSE Head(ss) \o Flatten(Tail(ss))

\* [x] * n
Repeat(x, n) == [i \in 1..n |-> x]

Min(a, b) == IF a < b THEN a ELSE b

(***************************************************************************)
(* Collaborators of maptype.py (mypy.types.has_type_vars,                  *)
(* mypy.expandtype.expand_type, mypy.typeops.tuple_fallback).              *)
(***************************************************************************)
RECURSIVE has_type_vars(_)
\* does the type expression mention a type variable
has_type_vars(typ) ==
    CASE typ.kind = "TypeVar" -> TRUE
      [] typ.kind = "Instance" -> \E i \in DOMAIN typ.args : has_type_vars(typ.args[i])
      [] typ.kind = "Tuple" -> \E i \in DOMAIN typ.items : has_type_vars(typ.items[i])
      [] OTHER -> FALSE

RECURSIVE expand_type(_, _)
\* substitute, simultaneously, the type variables bound by env (keyed by id);
\* a variable env does not bind is left as it is
expand_type(typ, env) ==
    CASE typ.kind = "TypeVar" -> IF typ.id \in DOMAIN env THEN env[typ.id] ELSE typ
      [] typ.kind = "Instance" ->
           Instance(typ.type, [i \in DOMAIN typ.args |-> expand_type(typ.args[i], env)])
      [] typ.kind = "Tuple" ->
           TupleType([i \in DOMAIN typ.items |-> expand_type(typ.items[i], env)])
      [] OTHER -> typ

\* nominal common supertype of a non-empty list of types: the type itself
\* when all agree, a dynamic type when one of them is dynamic, else object
join_type_list(items) ==
    IF \A i \in DOMAIN items : items[i] = items[1]
    THEN items[1]
    ELSE IF \E i \in DOMAIN items : items[i].kind = "Any"
    THEN items[CHOOSE i \in DOMAIN items :
                  /\ items[i].kind = "Any"
                  /\ \A j \in DOMAIN items : items[j].kind = "Any" => i <= j]
    ELSE Instance("builtins.object", <<>>)

\* the builtins.tuple instance a tuple type collapses to
tuple_fallback(typ) == Instance("builtins.tuple", <<join_type_list(typ.items)>>)

(***************************************************************************)
(* Returning and raising.                                                  *)
(***************************************************************************)
\* a normal return of v through the return statement named `branch`
Return(v, branch) == [exc |-> "none", ret |-> v, branch |-> branch]

\* an exception leaving the function
Raise(e) == [exc |-> e, ret |-> <<>>, branch |-> "raised"]

(***************************************************************************)
(* maptype.py                                                              *)
(***************************************************************************)
\* instance_to_type_environment pairing the type variables with the
\* arguments taken from the end
instance_to_type_environment_reversed(cls, inst) ==
    LET binders == cls[inst.type].defn_type_vars
        n == Min(Len(binders), Len(inst.args))
    IN  [id \in {binders[i] : i \in 1..n} |->
            inst.args[n + 1 - (CHOOSE i \in 1..n : binders[i] = id)]]

\* instance_to_type_environment that binds every type variable, those
\* without an argument to an error marker (zip_longest in place of zip)
instance_to_type_environment_padded(cls, inst) ==
    LET binders == cls[inst.type].defn_type_vars
    IN  [id \in {binders[i] : i \in 1..Len(binders)} |->
            LET i == CHOOSE j \in 1..Len(binders) : binders[j] = id
            IN  IF i <= Len(inst.args) THEN inst.args[i] ELSE AnyType(from_error)]

\* {binder.id: arg for binder, arg in zip(defn.type_vars, instance.args)}:
\* zip stops at the shorter list; a repeated key keeps its last value
instance_to_type_environment(cls, inst) ==
    LET binders == cls[inst.type].defn_type_vars
        n == Min(Len(binders), Len(inst.args))
        last(id) == CHOOSE i \in 1..n :
                        /\ binders[i] = id
                        /\ \A j \in 1..n : binders[j] = id => j <= i
    IN  [id \in {binders[i] : i \in 1..n} |-> inst.args[last(id)]]

\* map_instance_to_direct_supertypes that applies the base class to the
\* instance's own arguments instead of expanding the base edge
map_instance_to_direct_supertypes_own_args(cls, inst, supertype) ==
    LET matching == SelectSeq(cls[inst.type].bases, LAMBDA b : b.type = supertype)
        result == [i \in 1..Len(matching) |-> Instance(supertype, inst.args)]
    IN  IF Len(result) > 0
        THEN Return(result, "result")
        ELSE Return(<<Instance(supertype, Repeat(AnyType(unannotated),
                                                 Len(cls[supertype].type_vars)))>>,
                    "implicit")

\* map_instance_to_direct_supertypes whose implicit instantiation carries
\* the tag of the error dummy
map_instance_to_direct_supertypes_from_error(cls, inst, supertype) ==
    LET matching == SelectSeq(cls[inst.type].bases, LAMBDA b : b.type = supertype)
        env == instance_to_type_environment(cls, inst)
        result == [i \in 1..Len(matching) |-> expand_type(matching[i], env)]
    IN  IF Len(result) > 0
        THEN Return(result, "result")
        ELSE Return(<<Instance(supertype, Repeat(AnyType(from_error),
                                                 Len(cls[supertype].type_vars)))>>,
                    "implicit")

\* map_instance_to_direct_supertypes that returns the base edges as they
\* are declared, not expanded through the instance's environment
map_instance_to_direct_supertypes_unexpanded(cls, inst, supertype) ==
    LET matching == SelectSeq(cls[inst.type].bases, LAMBDA b : b.type = supertype)
    IN  IF Len(matching) > 0
        THEN Return(matching, "result")
        ELSE Return(<<Instance(supertype, Repeat(AnyType(unannotated),
                                                 Len(cls[supertype].type_vars)))>>,
                    "implicit")

\* map_instance_to_direct_supertypes that stops at the first base edge to
\* supertype
map_instance_to_direct_supertypes_first_edge(cls, inst, supertype) ==
    LET matching == SelectSeq(cls[inst.type].bases, LAMBDA b : b.type = supertype)
        env == instance_to_type_environment(cls, inst)
    IN  IF Len(matching) > 0
        THEN Return(<<expand_type(matching[1], env)>>, "result")
        ELSE Return(<<Instance(supertype, Repeat(AnyType(unannotated),
                                                 Len(cls[supertype].type_vars)))>>,
                    "implicit")

\* lines 85-103: the base edges to supertype, expanded through the
\* environment of the instance, or the implicit instantiation
map_instance_to_direct_supertypes(cls, inst, supertype) ==
    LET typ == inst.type
        matching == SelectSeq(cls[typ].bases, LAMBDA b : b.type = supertype)
        env == instance_to_type_environment(cls, inst)
        result == [i \in 1..Len(matching) |-> expand_type(matching[i], env)]
        any_type == AnyType(unannotated)
    IN  IF \E i \in 1..Len(result) : result[i].kind # "Instance"
        THEN Raise("AssertionError")
        ELSE IF Len(result) > 0
        THEN Return(result, "result")
        ELSE Return(<<Instance(supertype, Repeat(any_type, Len(cls[supertype].type_vars)))>>,
                    "implicit")

RECURSIVE class_derivation_paths_first(_, _, _)
\* class_derivation_paths that stops at the first path found
class_derivation_paths_first(cls, typ, supertype) ==
    LET bases == cls[typ].bases
        via(base) ==
            LET btype == base.type
                longer == class_derivation_paths_first(cls, btype, supertype)
            IN  IF btype = supertype
                THEN << <<btype>> >>
                ELSE [j \in 1..Len(longer) |-> <<btype>> \o longer[j]]
        found == Flatten([i \in 1..Len(bases) |-> via(bases[i])])
    IN  IF found = <<>> THEN <<>> ELSE <<found[1]>>

RECURSIVE class_derivation_paths_reversed(_, _, _)
\* class_derivation_paths that walks the bases from the last declared to
\* the first
class_derivation_paths_reversed(cls, typ, supertype) ==
    LET bases == cls[typ].bases
        n == Len(bases)
        via(base) ==
            LET btype == base.type
                longer == class_derivation_paths_reversed(cls, btype, supertype)
            IN  IF btype = supertype
                THEN << <<btype>> >>
                ELSE [j \in 1..Len(longer) |-> <<btype>> \o longer[j]]
    IN  Flatten([i \in 1..n |-> via(bases[n + 1 - i])])

RECURSIVE class_derivation_paths_skip(_, _, _)
\* class_derivation_paths that appends the longer paths without the base
\* they go through (path in place of [btype] + path)
class_derivation_paths_skip(cls, typ, supertype) ==
    LET bases == cls[typ].bases
        via(base) ==
            LET btype == base.type
            IN  IF btype = supertype
                THEN << <<btype>> >>
                ELSE class_derivation_paths_skip(cls, btype, supertype)
    IN  Flatten([i \in 1..Len(bases) |-> via(bases[i])])

RECURSIVE class_derivation_paths(_, _, _)
\* lines 61-82: the paths through each base, in the order of typ.bases
class_derivation_paths(cls, typ, supertype) ==
    LET bases == cls[typ].bases
        via(base) ==
            LET btype == base.type
                longer == class_derivation_paths(cls, btype, supertype)
            IN  IF btype = supertype
                THEN << <<btype>> >>
                ELSE [j \in 1..Len(longer) |-> <<btype>> \o longer[j]]
    IN  Flatten([i \in 1..Len(bases) |-> via(bases[i])])

\* the loop of map_instance_to_supertypes mapping, at every step, the
\* instances it started from instead of those of the previous step
map_along_path_from_start(cls, types, path) ==
    IF path = <<>>
    THEN Return(types, "result")
    ELSE LET step == [i \in 1..Len(types) |->
                         map_instance_to_direct_supertypes(cls, types[i], path[Len(path)])]
         IN  IF \E i \in 1..Len(types) : step[i].exc # "none"
             THEN Raise("AssertionError")
             ELSE Return(Flatten([i \in 1..Len(types) |-> step[i].ret]), "result")

\* the loop of map_instance_to_supertypes leaving the path after its first
\* class
map_along_path_first_step(cls, types, path) ==
    IF path = <<>>
    THEN Return(types, "result")
    ELSE LET step == [i \in 1..Len(types) |->
                         map_instance_to_direct_supertypes(cls, types[i], Head(path))]
         IN  IF \E i \in 1..Len(types) : step[i].exc # "none"
             THEN Raise("AssertionError")
             ELSE Return(Flatten([i \in 1..Len(types) |-> step[i].ret]), "result")

RECURSIVE map_along_path(_, _, _)
\* the inner loops of map_instance_to_supertypes: `types` mapped along the
\* remaining classes of one path
map_along_path(cls, types, path) ==
    IF path = <<>>
    THEN Return(types, "result")
    ELSE LET sup == Head(path)
             step == [i \in 1..Len(types) |->
                         map_instance_to_direct_supertypes(cls, types[i], sup)]
             bad == {i \in 1..Len(types) : step[i].exc # "none"}
         IN  IF bad # {}
             THEN Raise(step[CHOOSE i \in bad : \A j \in bad : i <= j].exc)
             ELSE \* lines 48-51: the list `a` is built once and becomes `types`
                  CHOOSE r \in {map_along_path(cls, a, Tail(path)) :
                                   a \in {Flatten([i \in 1..Len(types) |-> step[i].ret])}} :
                      TRUE

\* map_instance_to_supertypes whose dummy carries the tag of the implicit
\* (unannotated) instantiation
map_instance_to_supertypes_unannotated(cls, inst, supertype) ==
    LET paths == class_derivation_paths(cls, inst.type, supertype)
        per_path == [p \in 1..Len(paths) |-> map_along_path(cls, <<inst>>, paths[p])]
        result == Flatten([p \in 1..Len(paths) |-> per_path[p].ret])
        any_type == AnyType(unannotated)
    IN  IF Len(result) > 0
        THEN Return(result, "result")
        ELSE Return(<<Instance(supertype, Repeat(any_type, Len(cls[supertype].type_vars)))>>,
                    "dummy")

\* map_instance_to_supertypes without the dummy: an empty result is returned
map_instance_to_supertypes_no_dummy(cls, inst, supertype) ==
    LET paths == class_derivation_paths(cls, inst.type, supertype)
        per_path == [p \in 1..Len(paths) |-> map_along_path(cls, <<inst>>, paths[p])]
    IN  Return(Flatten([p \in 1..Len(paths) |-> per_path[p].ret]), "result")

\* map_instance_to_supertypes that puts the instantiations of a path before
\* those of the paths already walked
map_instance_to_supertypes_prepend(cls, inst, supertype) ==
    LET paths == class_derivation_paths(cls, inst.type, supertype)
        per_path == [p \in 1..Len(paths) |->
                        map_along_path(cls, <<inst>>, paths[Len(paths) + 1 - p])]
        result == Flatten([p \in 1..Len(paths) |-> per_path[p].ret])
    IN  IF Len(result) > 0
        THEN Return(result, "result")
        ELSE Return(<<Instance(supertype, Repeat(AnyType(from_error),
                                                 Len(cls[supertype].type_vars)))>>,
                    "dummy")

\* lines 44-58: the instantiations of supertype along the derivation paths
\* `paths` that line 45 has computed
map_instance_to_supertypes_along(cls, inst, supertype, paths) ==
    LET per_path == [p \in 1..Len(paths) |-> map_along_path(cls, <<inst>>, paths[p])]
        bad == {p \in 1..Len(paths) : per_path[p].exc # "none"}
        result == Flatten([p \in 1..Len(paths) |-> per_path[p].ret])
        any_type == AnyType(from_error)
    IN  IF bad # {}
        THEN Raise(per_path[CHOOSE p \in bad : \A q \in bad : p <= q].exc)
        ELSE IF Len(result) > 0
        THEN Return(result, "result")
        ELSE Return(<<Instance(supertype, Repeat(any_type, Len(cls[supertype].type_vars)))>>,
                    "dummy")

\* map_instance_to_supertypes with the identity case of
\* map_instance_to_supertype: the instance itself for its own class
map_instance_to_supertypes_identity(cls, inst, supertype) ==
    IF inst.type = supertype
    THEN Return(<<inst>>, "result")
    ELSE map_instance_to_supertypes_along(cls, inst, supertype,
                                          class_derivation_paths(cls, inst.type, supertype))

\* lines 41-58: the paths of line 45 are those of class_derivation_paths
map_instance_to_supertypes(cls, inst, supertype) ==
    map_instance_to_supertypes_along(cls, inst, supertype,
                                     class_derivation_paths(cls, inst.type, supertype))

\* map_instance_to_supertype with its fast paths dropped: every call goes
\* through map_instance_to_supertypes
map_instance_to_supertype_no_fast_path(cls, inst, superclass_) ==
    LET all == map_instance_to_supertypes(cls, inst, superclass_)
    IN  IF all.exc # "none" \/ all.ret = <<>>
        THEN [exc |-> "IndexError", ret |-> <<>>, branch |-> "raised",
              calls |-> <<"map_instance_to_supertypes">>]
        ELSE [exc |-> "none", ret |-> all.ret[1], branch |-> "general",
              calls |-> <<"map_instance_to_supertypes">>]

\* map_instance_to_supertype returning the last instantiation instead of
\* the first
map_instance_to_supertype_last(cls, inst, superclass_) ==
    LET all == map_instance_to_supertypes(cls, inst, superclass_)
    IN  IF inst.type = superclass_
        THEN [exc |-> "none", ret |-> inst, branch |-> "identity", calls |-> <<>>]
        ELSE IF cls[superclass_].type_vars = <<>>
        THEN [exc |-> "none", ret |-> Instance(superclass_, <<>>),
              branch |-> "no_type_vars", calls |-> <<>>]
        ELSE IF all.exc # "none" \/ all.ret = <<>>
        THEN [exc |-> "IndexError", ret |-> <<>>, branch |-> "raised",
              calls |-> <<"map_instance_to_supertypes">>]
        ELSE [exc |-> "none", ret |-> all.ret[Len(all.ret)], branch |-> "general",
              calls |-> <<"map_instance_to_supertypes">>]

\* map_instance_to_supertype whose tuple special case tests neither the
\* recursion flag of the alias nor whether the shape mentions type variables
map_instance_to_supertype_any_tuple_shape(cls, inst, superclass_) ==
    LET info == cls[inst.type]
        all == map_instance_to_supertypes(cls, inst, superclass_)
    IN  IF inst.type = superclass_
        THEN [exc |-> "none", ret |-> inst, branch |-> "identity", calls |-> <<>>]
        ELSE IF superclass_ = "builtins.tuple" /\ info.tuple_type # NoneValue
        THEN [exc |-> "none",
              ret |-> tuple_fallback(expand_type(info.tuple_type,
                                                 instance_to_type_environment(cls, inst))),
              branch |-> "tuple",
              calls |-> <<"instance_to_type_environment", "expand_type",
                          "tuple_fallback">>]
        ELSE IF cls[superclass_].type_vars = <<>>
        THEN [exc |-> "none", ret |-> Instance(superclass_, <<>>),
              branch |-> "no_type_vars", calls |-> <<>>]
        ELSE IF all.exc # "none" \/ all.ret = <<>>
        THEN [exc |-> "IndexError", ret |-> <<>>, branch |-> "raised",
              calls |-> <<"map_instance_to_supertypes">>]
        ELSE [exc |-> "none", ret |-> all.ret[1], branch |-> "general",
              calls |-> <<"map_instance_to_supertypes">>]

\* The record returned also tells which return statement was reached
\* (branch) and which functions the call went through (calls).
map_instance_to_supertype_from(cls, inst, superclass_, all) ==
    LET info == cls[inst.type]
        alias == info.special_alias
        env == instance_to_type_environment(cls, inst)
        tuple_type == expand_type(info.tuple_type, env)
        \* lines 34-38, reached after the calls `before`
        general(before) ==
            IF cls[superclass_].type_vars = <<>>
            THEN [exc |-> "none", ret |-> Instance(superclass_, <<>>),
                  branch |-> "no_type_vars", calls |-> before]
            ELSE IF all.exc # "none"
            THEN [exc |-> all.exc, ret |-> <<>>, branch |-> "raised",
                  calls |-> before \o <<"map_instance_to_supertypes">>]
            ELSE IF all.ret = <<>>
            THEN [exc |-> "IndexError", ret |-> <<>>, branch |-> "raised",
                  calls |-> before \o <<"map_instance_to_supertypes">>]
            ELSE [exc |-> "none", ret |-> all.ret[1], branch |-> "general",
                  calls |-> before \o <<"map_instance_to_supertypes">>]
    IN  IF inst.type = superclass_
        THEN [exc |-> "none", ret |-> inst, branch |-> "identity", calls |-> <<>>]
        ELSE IF /\ superclass_ = "builtins.tuple"
                /\ info.tuple_type # NoneValue
                /\ has_type_vars(info.tuple_type)
        THEN IF alias = NoneValue
             THEN [exc |-> "AssertionError", ret |-> <<>>, branch |-> "raised",
                   calls |-> <<>>]
             ELSE IF alias.is_recursive
             THEN general(<<>>)
             ELSE IF tuple_type.kind = "Tuple"
             THEN [exc |-> "none", ret |-> tuple_fallback(tuple_type),
                   branch |-> "tuple",
                   calls |-> <<"instance_to_type_environment", "expand_type",
                               "tuple_fallback">>]
             ELSE general(<<"instance_to_type_environment", "expand_type">>)
        ELSE general(<<>>)

\* lines 11-38: `all` of line 38 is the result of map_instance_to_supertypes
map_instance_to_supertype(cls, inst, superclass_) ==
    map_instance_to_supertype_from(cls, inst, superclass_,
                                   map_instance_to_supertypes(cls, inst, superclass_))

(***************************************************************************)
(* The inputs: class hierarchies (acyclic TypeInfo graphs, as semantic     *)
(* analysis builds them: every base edge is an Instance with one argument  *)
(* per type variable of the base class) and instances.                     *)
(***************************************************************************)
int == Instance("builtins.int", <<>>)
str == Instance("builtins.str", <<>>)
object == Instance("builtins.object", <<>>)
list_of(t) == Instance("builtins.list", <<t>>)
T1 == TypeVarType(1)
T2 == TypeVarType(2)

\* single inheritance and tuple-shaped classes
ChainHierarchy ==
    [n \in {"builtins.object", "builtins.tuple", "Root", "Base", "K", "Z",
            "NT", "RT", "NT0"} |->
        CASE n = "builtins.object" -> PlainClass(<<>>, <<>>)
          [] n = "builtins.tuple" -> PlainClass(<<object>>, <<"T_co">>)
          [] n = "Root" -> PlainClass(<<object>>, <<"V">>)
          [] n = "Base" -> PlainClass(<<Instance("Root", <<T1>>)>>, <<"U">>)
          [] n = "K" -> PlainClass(<<Instance("Base", <<list_of(T1)>>)>>, <<"T">>)
          [] n = "Z" -> PlainClass(<<object>>, <<"W">>)
          [] n = "NT" ->
               TupleClass(<<Instance("builtins.tuple", <<AnyType(special_form)>>)>>,
                          <<"T">>, <<T1, str>>, FALSE)
          [] n = "RT" ->
               TupleClass(<<Instance("builtins.tuple", <<AnyType(special_form)>>)>>,
                          <<"T">>, <<T1, Instance("RT", <<T1>>)>>, TRUE)
          [] n = "NT0" ->
               TupleClass(<<Instance("builtins.tuple", <<object>>)>>,
                          <<>>, <<int, str>>, FALSE)]

\* multiple inheritance: diamonds (agreeing and not), a class naming the
\* same base twice, classes of two type variables
DiamondHierarchy ==
    [n \in {"builtins.object", "Root", "A", "B", "B2", "D", "D2", "P", "Dup",
            "Two", "M"} |->
        CASE n = "builtins.object" -> PlainClass(<<>>, <<>>)
          [] n = "Root" -> PlainClass(<<object>>, <<"V">>)
          [] n = "A" -> PlainClass(<<Instance("Root", <<T1>>)>>, <<"X">>)
          [] n = "B" -> PlainClass(<<Instance("Root", <<T1>>)>>, <<"Y">>)
          [] n = "B2" -> PlainClass(<<Instance("Root", <<list_of(T1)>>)>>, <<"Y">>)
          [] n = "D" ->
               PlainClass(<<Instance("A", <<T1>>), Instance("B", <<T1>>)>>, <<"T">>)
          [] n = "D2" ->
               PlainClass(<<Instance("B2", <<T1>>), Instance("A", <<T1>>)>>, <<"T">>)
          [] n = "P" -> PlainClass(<<Instance("Root", <<T1>>)>>, <<"U">>)
          [] n = "Dup" ->
               PlainClass(<<Instance("P", <<T1>>), Instance("P", <<list_of(T1)>>)>>,
                          <<"T">>)
          [] n = "Two" -> PlainClass(<<object>>, <<"A", "B">>)
          [] n = "M" ->
               PlainClass(<<Instance("Two", <<T2, list_of(T1)>>),
                            Instance("A", <<T2>>)>>, <<"S", "T">>)]

Hierarchies == {ChainHierarchy, DiamondHierarchy}

\* the types an input instance is applied to: ground types, a type variable
\* (an instance written inside a generic scope), the dynamic types of an
\* unannotated and of an erroneous argument
ArgTypes == {int, str, T1, AnyType(unannotated), AnyType(from_error)}

ArgLists == UNION {[1..n -> ArgTypes] : n \in 0..MaxArgs}

\* the instances of one hierarchy; those whose argument count differs from
\* their class's are the callers' contract violations
Instances(cls) == {Instance(k, args) : k \in DOMAIN cls, args \in ArgLists}

(***************************************************************************)
(* The state machine: a caller holds a hierarchy, an instance and a target *)
(* class, and calls the functions of maptype.py on them.  `op` is the      *)
(* function called last and `out` what it returned or raised.              *)
(***************************************************************************)
Init ==
    /\ classes \in Hierarchies
    /\ instance \in Instances(classes)
    /\ superclass \in DOMAIN classes
    /\ op = "none"
    /\ out = Return(<<>>, "none")
    /\ tasks = <<>>

MapInstanceToSupertype ==
    /\ op' = "map_instance_to_supertype"
    /\ out' = map_instance_to_supertype(classes, instance, superclass)
    /\ UNCHANGED <<classes, instance, superclass, tasks>>

MapInstanceToSupertypes ==
    /\ op' = "map_instance_to_supertypes"
    /\ out' = map_instance_to_supertypes(classes, instance, superclass)
    /\ UNCHANGED <<classes, instance, superclass, tasks>>

ClassDerivationPaths ==
    /\ op' = "class_derivation_paths"
    /\ out' = Return(class_derivation_paths(classes, instance.type, superclass), "result")
    /\ UNCHANGED <<classes, instance, superclass, tasks>>

MapInstanceToDirectSupertypes ==
    /\ op' = "map_instance_to_direct_supertypes"
    /\ out' = map_instance_to_direct_supertypes(classes, instance, superclass)
    /\ UNCHANGED <<classes, instance, superclass, tasks>>

InstanceToTypeEnvironment ==
    /\ op' = "instance_to_type_environment"
    /\ out' = Return(instance_to_type_environment(classes, instance), "result")
    /\ UNCHANGED <<classes, instance, superclass, tasks>>

Next ==
    \/ MapInstanceToSupertype
    \/ MapInstanceToSupertypes
    \/ ClassDerivationPaths
    \/ MapInstanceToDirectSupertypes
    \/ InstanceToTypeEnvironment

Spec == Init /\ [][Next]_vars

(***************************************************************************)
(* The calls step by step.  A task is one caller of maptype.py; its record *)
(* holds the call's arguments (fn, inst, sup), its position (pc), the      *)
(* frames of class_derivation_paths that are on its call stack (the        *)
(* innermost last; a frame holds typ, the index i of the base the loop of  *)
(* line 73 is at, and the local list result), the paths the outermost      *)
(* frame returned, and the value the call returned (out).  The class table *)
(* is the only object the tasks share.                                     *)
(***************************************************************************)
\* line 71: a frame of class_derivation_paths(typ, supertype) starts with
\* an empty result list
NewFrame(typ) == [typ |-> typ, i |-> 1, result |-> <<>>]

\* a task that has not called yet
IdleTask(fn, inst, sup) ==
    [pc |-> "idle", fn |-> fn, inst |-> inst, sup |-> sup,
     stack |-> <<>>, paths |-> <<>>, out |-> Return(<<>>, "none")]

\* the return value that stands for "line 38 has not run yet"
Pending == [exc |-> "pending", ret |-> <<>>, branch |-> "pending"]

\* line 76, result.append([btype]): the frame after the loop body found
\* the target among the bases
frame_append_target(f, btype) ==
    [f EXCEPT !.result = Append(@, <<btype>>), !.i = @ + 1]

\* a recursive call that is made on the class of the frame itself
callee_frame_same_class(f, btype) == NewFrame(f.typ)

\* line 79, class_derivation_paths(btype, supertype): the frame of the
\* recursive call
callee_frame(f, btype) == NewFrame(btype)

\* lines 79-80, result.append([btype] + path) for each path the recursive
\* call on btype returned: the caller's frame after the loop body
frame_extend(f, btype, returned) ==
    [f EXCEPT !.result = @ \o [p \in 1..Len(returned) |-> <<btype>> \o returned[p]],
              !.i = @ + 1]

\* a loop that consumes typ.bases while it walks it
typ_bases_consumed(cls, typ) == [cls EXCEPT ![typ].bases = <<>>]

\* lines 73-82: the loop reads typ.bases and assigns to no attribute of a
\* TypeInfo; the class table after a frame of typ has returned
typ_bases_after_loop(cls, typ) == cls

Top(stack) == stack[Len(stack)]

\* the caller calls fn(inst, sup)
Call(t) ==
    /\ tasks[t].pc = "idle"
    /\ tasks' = [tasks EXCEPT ![t].pc = "entry", ![t].out = Return(<<>>, "none"),
                              ![t].paths = <<>>]
    /\ UNCHANGED <<classes, instance, superclass, op, out>>

\* map_instance_to_supertype lines 16-36: a fast path returns; otherwise,
\* and in map_instance_to_supertypes line 45, class_derivation_paths is
\* called
Enter(t) ==
    LET tk == tasks[t]
        fast == map_instance_to_supertype_from(classes, tk.inst, tk.sup, Pending)
    IN  /\ tk.pc = "entry"
        /\ IF tk.fn = "map_instance_to_supertype" /\ fast.exc # "pending"
           THEN tasks' = [tasks EXCEPT ![t].pc = "done", ![t].out = fast]
           ELSE tasks' = [tasks EXCEPT ![t].pc = "paths",
                                       ![t].stack = <<NewFrame(tk.inst.type)>>]
        /\ UNCHANGED <<classes, instance, superclass, op, out>>

\* lines 73-76: the next base of the innermost frame is the target
Visit(t) ==
    LET tk == tasks[t]
        f == Top(tk.stack)
        bases == classes[f.typ].bases
    IN  /\ tk.pc = "paths"
        /\ f.i <= Len(bases)
        /\ bases[f.i].type = tk.sup
        /\ tasks' = [tasks EXCEPT ![t].stack[Len(tk.stack)] =
                                      frame_append_target(f, bases[f.i].type)]
        /\ UNCHANGED <<classes, instance, superclass, op, out>>

\* lines 77-79: the next base is another class, class_derivation_paths
\* calls itself on it; beyond the recursion limit the call raises
Recurse(t) ==
    LET tk == tasks[t]
        f == Top(tk.stack)
        bases == classes[f.typ].bases
    IN  /\ tk.pc = "paths"
        /\ f.i <= Len(bases)
        /\ bases[f.i].type # tk.sup
        /\ IF Len(tk.stack) >= MaxDepth
           THEN tasks' = [tasks EXCEPT ![t].pc = "done", ![t].stack = <<>>,
                                       ![t].out = [Pending EXCEPT
                                                      !.exc = "RecursionError",
                                                      !.branch = "raised"]]
           ELSE tasks' = [tasks EXCEPT ![t].stack =
                                      Append(@, callee_frame(f, bases[f.i].type))]
        /\ UNCHANGED <<classes, instance, superclass, op, out>>

\* line 82: the innermost frame has walked all its bases and returns its
\* result, to the frame that called it (lines 79-80) or to the mapping
\* function (line 45)
ReturnPaths(t) ==
    LET tk == tasks[t]
        n == Len(tk.stack)
        f == Top(tk.stack)
    IN  /\ tk.pc = "paths"
        /\ f.i > Len(classes[f.typ].bases)
        /\ IF n > 1
           THEN tasks' = [tasks EXCEPT ![t].stack =
                              Append(SubSeq(tk.stack, 1, n - 2),
                                     frame_extend(tk.stack[n - 1], f.typ, f.result))]
           ELSE tasks' = [tasks EXCEPT ![t].pc = "compose", ![t].stack = <<>>,
                                       ![t].paths = f.result]
        /\ classes' = typ_bases_after_loop(classes, f.typ)
        /\ UNCHANGED <<instance, superclass, op, out>>

\* lines 46-58 and, in map_instance_to_supertype, line 38: the result is
\* built from the paths and returned
Compose(t) ==
    LET tk == tasks[t]
        all == map_instance_to_supertypes_along(classes, tk.inst, tk.sup, tk.paths)
    IN  /\ tk.pc = "compose"
        /\ tasks' = [tasks EXCEPT
                        ![t].pc = "done",
                        ![t].out = IF tk.fn = "map_instance_to_supertype"
                                   THEN map_instance_to_supertype_from(
                                            classes, tk.inst, tk.sup, all)
                                   ELSE all]
        /\ UNCHANGED <<classes, instance, superclass, op, out>>

\* the caller has taken the result and may call again
Finish(t) ==
    /\ tasks[t].pc = "done"
    /\ tasks' = [tasks EXCEPT ![t].pc = "idle"]
    /\ UNCHANGED <<classes, instance, superclass, op, out>>

Step(t) == Call(t) \/ Enter(t) \/ Visit(t) \/ Recurse(t) \/ ReturnPaths(t)
              \/ Compose(t) \/ Finish(t)

NextTasks ==
    \/ \E t \in DOMAIN tasks : Call(t)
    \/ \E t \in DOMAIN tasks : Enter(t)
    \/ \E t \in DOMAIN tasks : Visit(t)
    \/ \E t \in DOMAIN tasks : Recurse(t)
    \/ \E t \in DOMAIN tasks : ReturnPaths(t)
    \/ \E t \in DOMAIN tasks : Compose(t)
    \/ \E t \in DOMAIN tasks : Finish(t)

\* a class table with a cycle among its base edges, which semantic analysis
\* rejects upstream of maptype.py: X extends Y, Y extends X and Root
CyclicHierarchy ==
    [n \in {"builtins.object", "Root", "X", "Y"} |->
        CASE n = "builtins.object" -> PlainClass(<<>>, <<>>)
          [] n = "Root" -> PlainClass(<<object>>, <<"V">>)
          [] n = "X" -> PlainClass(<<Instance("Y", <<T1>>)>>, <<"T">>)
          [] n = "Y" -> PlainClass(<<Instance("X", <<T1>>), Instance("Root", <<T1>>)>>,
                                   <<"T">>)]

\* the instance of class k applied to ground arguments, one per type variable
GroundInstance(cls, k) == Instance(k, [i \in 1..Len(cls[k].type_vars) |-> int])

\* the two functions callers outside maptype.py use
Functions == {"map_instance_to_supertype", "map_instance_to_supertypes"}

\* the state of the variables of the one-shot caller while tasks run
NoCaller ==
    /\ instance = object
    /\ superclass = "builtins.object"
    /\ op = "none"
    /\ out = Return(<<>>, "none")

\* one task, any call on any class table, the cyclic one included
InitCall ==
    /\ classes \in Hierarchies \cup {CyclicHierarchy}
    /\ NoCaller
    /\ tasks \in [{1} -> {IdleTask(fn, GroundInstance(classes, k), sup) :
                             fn \in Functions, k \in DOMAIN classes,
                             sup \in DOMAIN classes}]

\* the interpreter runs a call that has begun until it returns or raises
SpecCall == InitCall /\ [][NextTasks]_vars /\ WF_vars(NextTasks)

\* the calls the tasks make side by side: several paths, one path, no path,
\* a fast path
SharedCalls(cls) ==
    {c \in {<<"map_instance_to_supertypes", "D", "Root">>,
            <<"map_instance_to_supertype", "D2", "Root">>,
            <<"map_instance_to_supertypes", "Dup", "Two">>,
            <<"map_instance_to_supertype", "K", "Root">>,
            <<"map_instance_to_supertypes", "K", "Z">>,
            <<"map_instance_to_supertype", "NT", "builtins.tuple">>} :
        c[2] \in DOMAIN cls /\ c[3] \in DOMAIN cls}

\* NumTasks tasks over one class table
InitTasks ==
    /\ classes \in Hierarchies
    /\ NoCaller
    /\ tasks \in [1..NumTasks -> {IdleTask(c[1], GroundInstance(classes, c[2]), c[3]) :
                                     c \in SharedCalls(classes)}]

\* the scheduler interleaves the steps of the tasks and starves none
SpecTasks == InitTasks /\ [][NextTasks]_vars /\ \A t \in 1..NumTasks : WF_vars(Step(t))

(***************************************************************************)
(* Vocabulary of the properties.                                           *)
(***************************************************************************)
\* the instance carries one argument per type variable of its class
ArityMatches == Len(instance.args) = Len(classes[instance.type].type_vars)

\* number of type parameters of the target class
TargetArity == Len(classes[superclass].type_vars)

\* the derivation paths from the instance's class to the target
Paths == class_derivation_paths(classes, instance.type, superclass)

\* the conditions of lines 20-26 and 31 under which the tuple fast path returns
TupleFastPath ==
    /\ instance.type # superclass
    /\ superclass = "builtins.tuple"
    /\ classes[instance.type].tuple_type # NoneValue
    /\ has_type_vars(classes[instance.type].tuple_type)
    /\ ~classes[instance.type].special_alias.is_recursive

\* map_instance_to_supertype reaches its last line
GeneralPath ==
    /\ instance.type # superclass
    /\ ~TupleFastPath
    /\ TargetArity > 0

Called(f) == op = f

(***************************************************************************)
(* C1  Identity: called with the instance's own class,                     *)
(* map_instance_to_supertype returns the instance itself (same class, same *)
(* arguments in the same order) through the first return statement,        *)
(* without calling any other function.                                     *)
(***************************************************************************)
C1_Identity ==
    (Called("map_instance_to_supertype") /\ instance.type = superclass)
        => /\ out.exc = "none"
           /\ out.ret = instance
           /\ out.branch = "identity"
           /\ out.calls = <<>>

\* the identity case on a generic tuple-shaped class of one argument
C1_Witness ==
    /\ Called("map_instance_to_supertype")
    /\ instance = Instance("NT", <<int>>)
    /\ superclass = "NT"
    /\ out.ret = Instance("NT", <<int>>)

\* every base edge carries one argument per type variable of its class
BaseEdgesMatch ==
    \A k \in DOMAIN classes : \A i \in 1..Len(classes[k].bases) :
        Len(classes[k].bases[i].args) = Len(classes[classes[k].bases[i].type].type_vars)

(***************************************************************************)
(* C2  Arity preservation: for an instance whose argument count matches    *)
(* its class and a target reachable by a derivation path, every            *)
(* instantiation map_instance_to_supertypes returns, and the one           *)
(* map_instance_to_supertype returns, carries exactly one argument per     *)
(* type variable of the target, in the target's parameter order (for       *)
(* M<S, T> with base Two<T, list[S]>: first T's argument, then list of     *)
(* S's).                                                                   *)
(***************************************************************************)
C2_ArityPreservation ==
    (ArityMatches /\ BaseEdgesMatch /\ Paths # <<>>)
        => /\ Called("map_instance_to_supertypes")
                => /\ out.exc = "none"
                   /\ Len(out.ret) > 0
                   /\ \A i \in 1..Len(out.ret) :
                        /\ out.ret[i].kind = "Instance"
                        /\ Len(out.ret[i].args) = TargetArity
                   /\ (instance.type = "M" /\ superclass = "Two")
                        => out.ret[1].args = <<instance.args[2], list_of(instance.args[1])>>
           /\ Called("map_instance_to_supertype")
                => /\ out.exc = "none"
                   /\ out.ret.kind = "Instance"
                   /\ Len(out.ret.args) = TargetArity
                   /\ (instance.type = "M" /\ superclass = "Two")
                        => out.ret.args = <<instance.args[2], list_of(instance.args[1])>>

\* a class of two type variables mapped to its base of two, whose edge swaps
\* the arguments
C2_Witness ==
    /\ Called("map_instance_to_supertypes")
    /\ instance = Instance("M", <<int, str>>)
    /\ superclass = "Two"
    /\ out.ret = <<Instance("Two", <<str, list_of(int)>>)>>

\* the base edges of class k whose class is b
EdgesTo(cls, k, b) == SelectSeq(cls[k].bases, LAMBDA e : e.type = b)

RECURSIVE NoDuplicateEdges(_, _, _)
\* along `path` from class k, every class left names the next one only once
NoDuplicateEdges(cls, k, path) ==
    \/ path = <<>>
    \/ /\ Len(EdgesTo(cls, k, Head(path))) = 1
       /\ NoDuplicateEdges(cls, Head(path), Tail(path))

RECURSIVE ExpandAlong(_, _, _)
\* one base edge after the other, each expanded through the environment of
\* the instance obtained so far
ExpandAlong(cls, inst, path) ==
    IF path = <<>>
    THEN inst
    ELSE ExpandAlong(cls,
                     expand_type(EdgesTo(cls, inst.type, Head(path))[1],
                                 instance_to_type_environment(cls, inst)),
                     Tail(path))

SinglePath ==
    /\ Len(Paths) = 1
    /\ NoDuplicateEdges(classes, instance.type, Paths[1])

(***************************************************************************)
(* C3  Single-path composition, as claimed: whenever exactly one           *)
(* derivation path leads to the target and no class on it names a base     *)
(* twice, map_instance_to_supertype returns the base edges of the path     *)
(* expanded one after the other.  Violated by a generic tuple-shaped class *)
(* mapped to builtins.tuple: NT<int>, whose only path is the edge          *)
(* tuple[Any], is mapped to tuple[object] by the tuple fast path.          *)
(***************************************************************************)
C3_Original ==
    (Called("map_instance_to_supertype") /\ ArityMatches /\ SinglePath)
        => /\ out.exc = "none"
           /\ out.ret = ExpandAlong(classes, instance, Paths[1])

(***************************************************************************)
(* C3  Single-path composition, amended: whenever exactly one derivation   *)
(* path leads to the target, no class on it names a base twice and the     *)
(* tuple fast path does not apply, map_instance_to_supertype returns the   *)
(* base edges of the path expanded one after the other, each through the   *)
(* environment of the instance obtained at the previous step; K<int> with  *)
(* K<T> extends Base<list[T]>, Base<U> extends Root<U> maps to             *)
(* Root<list[int]>.                                                        *)
(***************************************************************************)
C3_SinglePathComposition ==
    (Called("map_instance_to_supertype") /\ ArityMatches /\ SinglePath /\ ~TupleFastPath)
        => /\ out.exc = "none"
           /\ out.ret = ExpandAlong(classes, instance, Paths[1])
           /\ (instance = Instance("K", <<int>>) /\ superclass = "Root")
                => out.ret = Instance("Root", <<list_of(int)>>)

\* the two-step chain of the example
C3_Witness ==
    /\ Called("map_instance_to_supertype")
    /\ instance = Instance("K", <<int>>)
    /\ superclass = "Root"
    /\ Paths = << <<"Base", "Root">> >>
    /\ out.ret = Instance("Root", <<list_of(int)>>)

(***************************************************************************)
(* C4  Diamond inheritance: D<T> inherits A<T> and B<T>, which both extend *)
(* Root with their own parameter; map_instance_to_supertypes(D<a>, Root)   *)
(* holds one Root<a> for each of the two derivation paths, two equal       *)
(* entries that are not merged (for D<int>: Root<int> twice).              *)
(***************************************************************************)
C4_Diamond ==
    (/\ Called("map_instance_to_supertypes")
     /\ classes = DiamondHierarchy
     /\ instance.type = "D"
     /\ ArityMatches
     /\ superclass = "Root")
        => /\ out.exc = "none"
           /\ Paths = << <<"A", "Root">>, <<"B", "Root">> >>
           /\ out.ret = <<Instance("Root", instance.args), Instance("Root", instance.args)>>
           /\ instance.args = <<int>>
                => out.ret = <<Instance("Root", <<int>>), Instance("Root", <<int>>)>>

\* D<int> mapped to Root
C4_Witness ==
    /\ Called("map_instance_to_supertypes")
    /\ classes = DiamondHierarchy
    /\ instance = Instance("D", <<int>>)
    /\ superclass = "Root"
    /\ Len(out.ret) = 2
    /\ out.ret[1] = Instance("Root", <<int>>)
    /\ out.ret[2] = Instance("Root", <<int>>)

(***************************************************************************)
(* C5  Unreachable target: with no derivation path to a target Z other     *)
(* than the instance's class, Z of at least one type variable and the      *)
(* tuple fast path not applying, map_instance_to_supertypes returns        *)
(* exactly one instantiation of Z and map_instance_to_supertype returns    *)
(* that instantiation: one argument per type variable of Z, each the       *)
(* dynamic type tagged from_error.  The implicit instantiation that        *)
(* map_instance_to_direct_supertypes returns for the same inputs carries   *)
(* the tag unannotated, a different value at every argument.               *)
(***************************************************************************)
C5_UnreachableTarget ==
    (/\ Paths = <<>>
     /\ instance.type # superclass
     /\ TargetArity > 0
     /\ ~TupleFastPath)
        => LET dummy == Instance(superclass, [i \in 1..TargetArity |-> AnyType(from_error)])
           IN  /\ Called("map_instance_to_supertypes")
                    => out.exc = "none" /\ out.ret = <<dummy>>
               /\ Called("map_instance_to_supertype")
                    => out.exc = "none" /\ out.ret = dummy
               /\ Called("map_instance_to_direct_supertypes")
                    => /\ out.exc = "none"
                       /\ out.branch = "implicit"
                       /\ Len(out.ret) = 1
                       /\ Len(out.ret[1].args) = TargetArity
                       /\ \A i \in 1..TargetArity :
                            /\ out.ret[1].args[i] = AnyType(unannotated)
                            /\ out.ret[1].args[i] # dummy.args[i]

\* K<int> mapped to the unrelated class Z<W>
C5_Witness ==
    /\ Called("map_instance_to_supertype")
    /\ instance = Instance("K", <<int>>)
    /\ superclass = "Z"
    /\ Paths = <<>>
    /\ out.ret = Instance("Z", <<AnyType(from_error)>>)

(***************************************************************************)
(* C6  No-parameter targets: for a target without type variables and any   *)
(* instance (one argument per type variable of its class), reachable or    *)
(* not, map_instance_to_supertype returns the target applied to no         *)
(* argument, and map_instance_to_supertypes is not called.                 *)
(***************************************************************************)
C6_NoParameterTarget ==
    (Called("map_instance_to_supertype") /\ ArityMatches /\ TargetArity = 0)
        => /\ out.exc = "none"
           /\ out.ret = Instance(superclass, <<>>)
           /\ out.branch \in {"identity", "no_type_vars"}
           /\ \A i \in 1..Len(out.calls) : out.calls[i] # "map_instance_to_supertypes"

\* K<int> mapped to a class without type variables it does not derive from
C6_Witness ==
    /\ Called("map_instance_to_supertype")
    /\ instance = Instance("K", <<int>>)
    /\ superclass = "NT0"
    /\ Paths = <<>>
    /\ out.branch = "no_type_vars"
    /\ out.ret = Instance("NT0", <<>>)

\* the instance's arguments mention no dynamic type
NoDynamicArgument == \A i \in 1..Len(instance.args) : instance.args[i].kind # "Any"

AllInstantiations == map_instance_to_supertypes(classes, instance, superclass)

(***************************************************************************)
(* C8  Single-result policy: when the target is not the instance's class,  *)
(* has at least one type variable and the tuple fast path does not apply,  *)
(* map_instance_to_supertype returns the first element of                  *)
(* map_instance_to_supertypes.  Paths that give different instantiations   *)
(* are neither merged nor compared: for D2<int>, whose paths give          *)
(* Root<list[int]> and Root<int>, the call returns Root<list[int]> and     *)
(* raises nothing.                                                         *)
(***************************************************************************)
C8_SingleResultPolicy ==
    (Called("map_instance_to_supertype") /\ GeneralPath)
        => /\ out.exc = "none"
           /\ out.branch = "general"
           /\ AllInstantiations.exc = "none"
           /\ Len(AllInstantiations.ret) > 0
           /\ out.ret = AllInstantiations.ret[1]
           /\ (instance = Instance("D2", <<int>>) /\ superclass = "Root")
                => /\ AllInstantiations.ret = <<Instance("Root", <<list_of(int)>>),
                                               Instance("Root", <<int>>)>>
                   /\ out.ret = Instance("Root", <<list_of(int)>>)

\* two derivation paths that disagree
C8_Witness ==
    /\ Called("map_instance_to_supertype")
    /\ instance = Instance("D2", <<int>>)
    /\ superclass = "Root"
    /\ Len(AllInstantiations.ret) = 2
    /\ AllInstantiations.ret[1] # AllInstantiations.ret[2]
    /\ out.ret = AllInstantiations.ret[1]

Range(seq) == {seq[i] : i \in 1..Len(seq)}

RECURSIVE PathInstantiations(_, _, _)
\* every instantiation derivable along `path`: at each step any base edge to
\* the next class, expanded through the environment of the instance reached
PathInstantiations(cls, inst, path) ==
    IF path = <<>>
    THEN {inst}
    ELSE UNION {PathInstantiations(cls,
                                   expand_type(e, instance_to_type_environment(cls, inst)),
                                   Tail(path)) :
                e \in Range(EdgesTo(cls, inst.type, Head(path)))}

\* the dummy of lines 56-58 for the state's target
ErrorDummy == Instance(superclass, [i \in 1..TargetArity |-> AnyType(from_error)])

(***************************************************************************)
(* C9  map_instance_to_supertypes returns the dummy (the target applied to *)
(* from_error dynamic types) if and only if no derivation path exists, and *)
(* then nothing else; with at least one path it returns the instantiations *)
(* derived along the paths, all of them and only them, at least one per    *)
(* path, and (for a target with type variables and an instance without     *)
(* from_error arguments) none that equals the dummy.                       *)
(***************************************************************************)
C9_DummyIffNoPath ==
    Called("map_instance_to_supertypes")
        => /\ out.exc = "none"
           /\ out.branch = "dummy" <=> Paths = <<>>
           /\ Paths = <<>> => out.ret = <<ErrorDummy>>
           /\ Paths # <<>>
                => /\ out.branch = "result"
                   /\ Range(out.ret) =
                        UNION {PathInstantiations(classes, instance, Paths[p]) :
                               p \in 1..Len(Paths)}
                   /\ Len(out.ret) >= Len(Paths)
                   /\ (/\ TargetArity > 0
                       /\ AnyType(from_error) \notin Range(instance.args))
                        => ErrorDummy \notin Range(out.ret)

\* a target without path and a target with two paths
C9_WitnessNoPath ==
    /\ Called("map_instance_to_supertypes")
    /\ instance = Instance("D", <<int>>)
    /\ superclass = "Two"
    /\ Paths = <<>>
    /\ out.branch = "dummy"
    /\ out.ret = <<Instance("Two", <<AnyType(from_error), AnyType(from_error)>>)>>

(***************************************************************************)
(* C10  No failure state: for an instance with one argument per type       *)
(* variable of its class and any target, map_instance_to_supertype,        *)
(* map_instance_to_supertypes and map_instance_to_direct_supertypes return *)
(* a value: no assertion fails (lines 25 and 94), no index is out of       *)
(* range (line 38); a target without derivation path or base edge is       *)
(* answered by an instantiation of dynamic types.                          *)
(***************************************************************************)
C10_NoFailure ==
    ArityMatches
        => /\ Called("map_instance_to_supertype")
                => /\ out.exc = "none"
                   /\ out.branch # "raised"
                   /\ out.ret.kind = "Instance"
                   /\ (GeneralPath /\ Paths = <<>>)
                        => \A i \in 1..Len(out.ret.args) : out.ret.args[i].kind = "Any"
           /\ (Called("map_instance_to_supertypes")
                 \/ Called("map_instance_to_direct_supertypes"))
                => /\ out.exc = "none"
                   /\ out.branch # "raised"
                   /\ Len(out.ret) > 0
                   /\ \A i \in 1..Len(out.ret) : out.ret[i].kind = "Instance"
                   /\ out.branch \in {"dummy", "implicit"}
                        => \A i \in 1..Len(out.ret[1].args) :
                              out.ret[1].args[i].kind = "Any"

\* an unrelated generic target is answered with dynamic arguments
C10_Witness ==
    /\ Called("map_instance_to_supertype")
    /\ ArityMatches
    /\ instance.type = "Dup"
    /\ superclass = "Two"
    /\ Paths = <<>>
    /\ out.exc = "none"
    /\ out.ret = Instance("Two", <<AnyType(from_error), AnyType(from_error)>>)

\* the classes of the direct base edges of class k, as a set
BaseClasses(cls, k) == {cls[k].bases[i].type : i \in 1..Len(cls[k].bases)}

\* [b1, ..., bn] is a chain of direct bases from class k ending at class s,
\* which occurs nowhere before the end
IsChain(cls, k, s, chain) ==
    /\ Len(chain) > 0
    /\ chain[1] \in BaseClasses(cls, k)
    /\ \A i \in 1..(Len(chain) - 1) : chain[i + 1] \in BaseClasses(cls, chain[i])
    /\ chain[Len(chain)] = s
    /\ \A i \in 1..(Len(chain) - 1) : chain[i] # s

RECURSIVE Chains(_, _, _)
\* the set of all chains from class k to class s
Chains(cls, k, s) ==
    {<<b>> : b \in BaseClasses(cls, k) \cap {s}}
        \cup UNION {{<<b>> \o c : c \in Chains(cls, b, s)} : b \in BaseClasses(cls, k) \ {s}}

RECURSIVE EdgeChains(_, _, _)
\* the number of ways to walk `chain` from class k edge by edge (a class
\* naming a base twice gives two edges)
EdgeChains(cls, k, chain) ==
    IF chain = <<>>
    THEN 1
    ELSE Len(EdgesTo(cls, k, Head(chain))) * EdgeChains(cls, Head(chain), Tail(chain))

\* how often x occurs in the sequence
Count(seq, x) == Cardinality({i \in 1..Len(seq) : seq[i] = x})

(***************************************************************************)
(* C14  Path enumeration is exact: class_derivation_paths(K, S) returns    *)
(* the chains [b1..bn] of direct bases from K to S (b1 a base of K, each   *)
(* next class a base of the previous, bn = S, S nowhere else), each as     *)
(* often as there are chains of edges along it, and nothing else; it       *)
(* returns the empty list when there is no chain, as when S = K.           *)
(***************************************************************************)
C14_PathsExact ==
    Called("class_derivation_paths")
        => /\ out.exc = "none"
           /\ \A i \in 1..Len(out.ret) :
                IsChain(classes, instance.type, superclass, out.ret[i])
           /\ Range(out.ret) = Chains(classes, instance.type, superclass)
           /\ \A c \in Range(out.ret) :
                Count(out.ret, c) = EdgeChains(classes, instance.type, c)
           /\ Chains(classes, instance.type, superclass) = {} => out.ret = <<>>
           /\ instance.type = superclass => out.ret = <<>>

\* the two chains of the diamond
C14_Witness ==
    /\ Called("class_derivation_paths")
    /\ instance.type = "D"
    /\ superclass = "Root"
    /\ out.ret = << <<"A", "Root">>, <<"B", "Root">> >>

\* the base edges of the instance's class whose class is the target
DirectEdges == EdgesTo(classes, instance.type, superclass)

(***************************************************************************)
(* C15  Direct supertype instantiation: when the instance's class has at   *)
(* least one base edge whose class is the target,                          *)
(* map_instance_to_direct_supertypes returns one instantiation per such    *)
(* edge, in the order of the bases, each the edge expanded through the     *)
(* instance's environment; a class naming the target twice gets two        *)
(* entries (Dup<int> to P: P<int>, P<list[int]>).                          *)
(***************************************************************************)
C15_DirectSupertypes ==
    (Called("map_instance_to_direct_supertypes") /\ Len(DirectEdges) >= 1)
        => /\ out.exc = "none"
           /\ out.branch = "result"
           /\ Len(out.ret) = Len(DirectEdges)
           /\ \A i \in 1..Len(out.ret) :
                out.ret[i] = expand_type(DirectEdges[i],
                                         instance_to_type_environment(classes, instance))
           /\ instance = Instance("Dup", <<int>>) /\ superclass = "P"
                => out.ret = <<Instance("P", <<int>>), Instance("P", <<list_of(int)>>)>>
           /\ instance = Instance("K", <<str>>) /\ superclass = "Base"
                => out.ret = <<Instance("Base", <<list_of(str)>>)>>

\* a class naming the same base twice
C15_Witness ==
    /\ Called("map_instance_to_direct_supertypes")
    /\ instance = Instance("Dup", <<int>>)
    /\ superclass = "P"
    /\ Len(DirectEdges) = 2
    /\ out.ret = <<Instance("P", <<int>>), Instance("P", <<list_of(int)>>)>>

(***************************************************************************)
(* C16  Unannotated fallback: when the instance's class has no base edge   *)
(* whose class is the target, map_instance_to_direct_supertypes returns    *)
(* exactly one instantiation of the target, with one argument per type     *)
(* variable of the target, each the dynamic type tagged unannotated and    *)
(* none the one tagged from_error.                                         *)
(***************************************************************************)
C16_UnannotatedFallback ==
    (Called("map_instance_to_direct_supertypes") /\ Len(DirectEdges) = 0)
        => /\ out.exc = "none"
           /\ out.branch = "implicit"
           /\ Len(out.ret) = 1
           /\ out.ret[1].kind = "Instance"
           /\ out.ret[1].type = superclass
           /\ Len(out.ret[1].args) = TargetArity
           /\ \A i \in 1..Len(out.ret[1].args) :
                /\ out.ret[1].args[i] = AnyType(unannotated)
                /\ out.ret[1].args[i] # AnyType(from_error)

\* D has no base edge to Two, a class of two type variables
C16_Witness ==
    /\ Called("map_instance_to_direct_supertypes")
    /\ instance = Instance("D", <<int>>)
    /\ superclass = "Two"
    /\ DirectEdges = <<>>
    /\ out.ret = <<Instance("Two", <<AnyType(unannotated), AnyType(unannotated)>>)>>

RECURSIVE WalkPath(_, _, _)
\* the list obtained from `types` by replacing it, for each class of the
\* path from left to right, by the concatenation over its elements (in
\* order) of what map_instance_to_direct_supertypes gives for the element
WalkPath(cls, types, path) ==
    IF path = <<>>
    THEN types
    ELSE WalkPath(cls,
                  Flatten([i \in 1..Len(types) |->
                      map_instance_to_direct_supertypes(cls, types[i], Head(path)).ret]),
                  Tail(path))

(***************************************************************************)
(* C17  General-path composition and order: with at least one derivation   *)
(* path, map_instance_to_supertypes returns the concatenation, in the      *)
(* order of class_derivation_paths, of the per-path lists, each obtained   *)
(* by walking the path from the list [instance].  D2<int>, whose bases are *)
(* B2 then A, gives Root<list[int]> then Root<int>; Dup<int>, which names  *)
(* P twice, gives Root<int>, Root<list[int]> once per path.                *)
(***************************************************************************)
C17_CompositionOrder ==
    (Called("map_instance_to_supertypes") /\ Paths # <<>>)
        => /\ out.exc = "none"
           /\ out.ret = Flatten([p \in 1..Len(Paths) |->
                                    WalkPath(classes, <<instance>>, Paths[p])])
           /\ instance = Instance("D2", <<int>>) /\ superclass = "Root"
                => out.ret = <<Instance("Root", <<list_of(int)>>), Instance("Root", <<int>>)>>
           /\ instance = Instance("Dup", <<int>>) /\ superclass = "Root"
                => out.ret = <<Instance("Root", <<int>>), Instance("Root", <<list_of(int)>>),
                               Instance("Root", <<int>>), Instance("Root", <<list_of(int)>>)>>

\* two paths whose results differ, in the order of the bases
C17_Witness ==
    /\ Called("map_instance_to_supertypes")
    /\ instance = Instance("D2", <<int>>)
    /\ superclass = "Root"
    /\ Paths = << <<"B2", "Root">>, <<"A", "Root">> >>
    /\ out.ret = <<Instance("Root", <<list_of(int)>>), Instance("Root", <<int>>)>>

RecursiveTupleShape ==
    /\ instance.type # superclass
    /\ superclass = "builtins.tuple"
    /\ classes[instance.type].tuple_type # NoneValue
    /\ has_type_vars(classes[instance.type].tuple_type)
    /\ classes[instance.type].special_alias.is_recursive

\* what lines 34-38 give for the state's instance and target
LaterSteps ==
    IF TargetArity = 0
    THEN Instance(superclass, <<>>)
    ELSE AllInstantiations.ret[1]

(***************************************************************************)
(* C19  Recursive tuple shapes: for the target builtins.tuple and a class  *)
(* whose tuple shape mentions type variables but is flagged recursive,     *)
(* map_instance_to_supertype does not return through the tuple fast path   *)
(* and raises nothing; it returns what the later steps give: the target    *)
(* applied to no argument if the target has no type variable, otherwise    *)
(* the first element of map_instance_to_supertypes (for RT: the expanded   *)
(* base edge tuple[Any, ...]).                                             *)
(***************************************************************************)
C19_RecursiveTupleShape ==
    (Called("map_instance_to_supertype") /\ RecursiveTupleShape)
        => /\ out.exc = "none"
           /\ out.branch \in {"no_type_vars", "general"}
           /\ \A i \in 1..Len(out.calls) : out.calls[i] # "tuple_fallback"
           /\ out.ret = LaterSteps
           /\ instance.type = "RT"
                => out.ret = Instance("builtins.tuple", <<AnyType(special_form)>>)

\* RT<int>, whose shape (T, RT<T>) is recursive
C19_Witness ==
    /\ Called("map_instance_to_supertype")
    /\ instance = Instance("RT", <<int>>)
    /\ superclass = "builtins.tuple"
    /\ classes[instance.type].special_alias.is_recursive
    /\ out.branch = "general"
    /\ out.ret = Instance("builtins.tuple", <<AnyType(special_form)>>)

(***************************************************************************)
(* C20  Tuple fast path guard, as claimed: the tuple fast path is taken    *)
(* only under its six conditions, and whenever one of them fails the       *)
(* result is the one of the no-parameters fast path or of the general      *)
(* path.  Violated when the condition that fails is K # S and the class    *)
(* has type variables: the identity fast path returns the instance, the    *)
(* general path would give the error dummy.                                *)
(***************************************************************************)
C20_Original ==
    (Called("map_instance_to_supertype") /\ ArityMatches)
        => /\ out.branch = "tuple" => TupleFastPath
           /\ ~TupleFastPath => out.ret = LaterSteps

(***************************************************************************)
(* C20  Tuple fast path guard, amended: map_instance_to_supertype returns  *)
(* through the tuple fast path only if the target is not the instance's    *)
(* class, the target is builtins.tuple, the class has a tuple shape, the   *)
(* shape mentions type variables, is not recursive and expands to a tuple  *)
(* type; whenever one of these fails, the result is the instance itself    *)
(* when the target is its class, and otherwise the one of the              *)
(* no-parameters fast path or of the general path (NT0, whose shape        *)
(* (int, str) mentions no type variable, maps to its expanded base edge).  *)
(***************************************************************************)
C20_TupleFastPathGuard ==
    Called("map_instance_to_supertype")
        => /\ out.exc = "none"
           /\ out.branch = "tuple"
                => /\ TupleFastPath
                   /\ expand_type(classes[instance.type].tuple_type,
                                  instance_to_type_environment(classes, instance)).kind
                        = "Tuple"
           /\ ~TupleFastPath
                => /\ out.branch \in {"identity", "no_type_vars", "general"}
                   /\ out.branch = "identity" <=> instance.type = superclass
                   /\ instance.type = superclass => out.ret = instance
                   /\ instance.type # superclass => out.ret = LaterSteps
           /\ instance.type = "NT0" /\ superclass = "builtins.tuple"
                => out.ret = Instance("builtins.tuple", <<object>>) /\ out.branch = "general"

\* a tuple-shaped class whose shape mentions no type variable
C20_Witness ==
    /\ Called("map_instance_to_supertype")
    /\ instance = Instance("NT0", <<>>)
    /\ superclass = "builtins.tuple"
    /\ classes[instance.type].tuple_type = TupleType(<<int, str>>)
    /\ ~TupleFastPath
    /\ out.branch = "general"
    /\ out.ret = Instance("builtins.tuple", <<object>>)

(***************************************************************************)
(* Vocabulary of the properties of the calls taken step by step.           *)
(***************************************************************************)
RECURSIVE Above(_, _, _)
\* the classes reached from the classes `from` by at most n base edges
Above(cls, from, n) ==
    IF n = 0
    THEN from
    ELSE Above(cls, from \cup UNION {BaseClasses(cls, k) : k \in from}, n - 1)

\* no class is reached from its own bases
Acyclic(cls) ==
    \A k \in DOMAIN cls :
        k \notin Above(cls, BaseClasses(cls, k), Cardinality(DOMAIN cls))

RECURSIVE LongestChain(_, _)
\* the number of base edges of the longest base chain that starts at class
\* k, in an acyclic class table
LongestChain(cls, k) ==
    IF cls[k].bases = <<>>
    THEN 0
    ELSE LET below == {LongestChain(cls, b) : b \in BaseClasses(cls, k)}
         IN  1 + CHOOSE n \in below : \A m \in below : m <= n

\* the number of calls of class_derivation_paths that task t has made from
\* inside class_derivation_paths and that have not returned
RecursionDepth(t) == Len(tasks[t].stack) - 1

\* task t is inside a call
Running(t) == tasks[t].pc \in {"entry", "paths", "compose"}

\* the call of task t has returned a value
Returned(t) == tasks[t].pc = "done" /\ tasks[t].out.exc # "RecursionError"

(***************************************************************************)
(* C11.  Termination: over an acyclic class table every call of            *)
(* map_instance_to_supertype and of map_instance_to_supertypes, and the    *)
(* path enumeration inside it, comes to its end without reaching the       *)
(* recursion limit, and class_derivation_paths is never nested deeper      *)
(* than the longest base chain that starts at the instance's class is      *)
(* long.  Nothing in the code guards against a cycle: over the cyclic      *)
(* class table the enumeration from X towards Root recurses until the      *)
(* recursion limit ends it.                                                *)
(***************************************************************************)
C11_Termination ==
    /\ [](Acyclic(classes)
            => /\ tasks[1].pc = "paths"
                    => RecursionDepth(1) <= LongestChain(classes, tasks[1].inst.type)
               /\ tasks[1].out.exc # "RecursionError")
    /\ (Acyclic(classes) /\ Running(1)) ~> Returned(1)
    /\ (/\ classes = CyclicHierarchy
        /\ tasks[1].inst.type = "X"
        /\ tasks[1].sup = "Root"
        /\ Running(1))
          ~> (tasks[1].pc = "done" /\ tasks[1].out.exc = "RecursionError")

\* the enumeration from K towards Z is nested as deep as the chain
\* K, Base, Root, builtins.object is long
C11_Witness ==
    /\ Acyclic(classes)
    /\ tasks[1].pc = "paths"
    /\ tasks[1].inst.type = "K"
    /\ tasks[1].sup = "Z"
    /\ LongestChain(classes, "K") = 3
    /\ RecursionDepth(1) = 3
    /\ Top(tasks[1].stack).typ = "builtins.object"

\* the arguments task t calls with
Arguments(t) == <<tasks[t].fn, tasks[t].inst, tasks[t].sup>>

(***************************************************************************)
(* C12.  Frame: no step of a call of map_instance_to_supertype or of       *)
(* map_instance_to_supertypes changes the class table (base edges, type    *)
(* variables, tuple shapes) or the instance the call was given (its class  *)
(* and arguments), during the call or when it returns; and a call starts   *)
(* from nothing but its arguments, whatever calls were made before: its    *)
(* frames, paths and result are those of a first call.                     *)
(***************************************************************************)
C12_Frame ==
    [][/\ classes' = classes
       /\ \A t \in DOMAIN tasks :
            /\ Arguments(t)' = Arguments(t)
            /\ tasks'[t].pc = "entry"
                 => tasks'[t] = [IdleTask(tasks[t].fn, tasks[t].inst, tasks[t].sup)
                                    EXCEPT !.pc = "entry"]
            /\ tasks[t].pc = "done"
                 => tasks'[t].stack = <<>>]_vars

\* a call on D<int> has returned its two instantiations of Root while
\* another call is inside class_derivation_paths, and the class table is
\* what it was
C12_Witness ==
    /\ classes = DiamondHierarchy
    /\ tasks[1].pc = "done"
    /\ tasks[1].inst = Instance("D", <<int>>)
    /\ tasks[1].sup = "Root"
    /\ tasks[1].out.ret = <<Instance("Root", <<int>>), Instance("Root", <<int>>)>>
    /\ tasks[2].pc = "paths"
    /\ Len(tasks[2].stack) = 2

\* what the call of task t returns when it is made on its own, in one piece
Alone(t) ==
    IF tasks[t].fn = "map_instance_to_supertype"
    THEN map_instance_to_supertype(classes, tasks[t].inst, tasks[t].sup)
    ELSE map_instance_to_supertypes(classes, tasks[t].inst, tasks[t].sup)

(***************************************************************************)
(* C13.  Concurrent calls: however the steps of the tasks' calls are       *)
(* interleaved over the one class table, which nothing else changes, each  *)
(* call enumerates the paths and returns the result that the same call     *)
(* gives when it runs alone.                                               *)
(***************************************************************************)
C13_Interleaving ==
    \A t \in DOMAIN tasks :
        /\ tasks[t].pc = "compose"
             => tasks[t].paths
                  = class_derivation_paths(classes, tasks[t].inst.type, tasks[t].sup)
        /\ tasks[t].pc = "done" => tasks[t].out = Alone(t)

\* one call has returned the instantiation of Root along K, Base, Root
\* while the other, begun before that, has found no path from K to Z
C13_Witness ==
    /\ classes = ChainHierarchy
    /\ tasks[1].pc = "done"
    /\ tasks[1].fn = "map_instance_to_supertype"
    /\ tasks[1].inst = Instance("K", <<int>>)
    /\ tasks[1].sup = "Root"
    /\ tasks[1].out.ret = Instance("Root", <<list_of(int)>>)
    /\ tasks[2].pc = "compose"
    /\ tasks[2].sup = "Z"
    /\ tasks[2].paths = <<>>

(***************************************************************************)
(* C21.  Arity mismatch is not reported: for an instance whose number of   *)
(* arguments differs from the number of type variables of its class,       *)
(* instance_to_type_environment returns normally; the mapping binds        *)
(* exactly the first min(arguments, type variables) type variables, the    *)
(* i-th one to the i-th argument, and the surplus of either list is left   *)
(* out.                                                                    *)
(***************************************************************************)
C21_ArityMismatch ==
    (Called("instance_to_type_environment") /\ ~ArityMatches)
        => LET binders == classes[instance.type].defn_type_vars
               n == Min(Len(instance.args), Len(binders))
           IN  /\ out.exc = "none"
               /\ DOMAIN out.ret = {binders[i] : i \in 1..n}
               /\ Cardinality(DOMAIN out.ret) = n
               /\ \A i \in 1..n : out.ret[binders[i]] = instance.args[i]

\* a class of two type variables applied to one argument: the second type
\* variable is left unbound
C21_Witness ==
    /\ Called("instance_to_type_environment")
    /\ instance = Instance("M", <<str>>)
    /\ Len(classes[instance.type].defn_type_vars) = 2
    /\ out.exc = "none"
    /\ DOMAIN out.ret = {1}
    /\ out.ret[1] = str

(***************************************************************************)
(* C22.  The result is never empty: map_instance_to_supertypes and         *)
(* map_instance_to_direct_supertypes return, for every instance and every  *)
(* target class of an acyclic class table, a list of at least one          *)
(* element, so that map_instance_to_supertype never fails to take the      *)
(* first element at line 38: on the general path it returns that element.  *)
(***************************************************************************)
C22_NeverEmpty ==
    /\ Called("map_instance_to_supertypes")
         => out.exc = "none" /\ Len(out.ret) >= 1
    /\ Called("map_instance_to_direct_supertypes")
         => out.exc = "none" /\ Len(out.ret) >= 1
    /\ Called("map_instance_to_supertype")
         => /\ out.exc # "IndexError"
            /\ out.branch # "raised"
            /\ out.branch = "general"
                 => /\ Len(AllInstantiations.ret) >= 1
                    /\ out.ret = AllInstantiations.ret[1]

\* no path leads from D to Two: the list holds the one dummy
C22_Witness ==
    /\ Called("map_instance_to_supertypes")
    /\ instance = Instance("D", <<int>>)
    /\ superclass = "Two"
    /\ Paths = <<>>
    /\ Len(out.ret) = 1
    /\ out.ret[1] = Instance("Two", <<AnyType(from_error), AnyType(from_error)>>)

(***************************************************************************)
(* C23.  Target class of the results: every element of the list            *)
(* map_instance_to_supertypes returns, derived along a path or the dummy,  *)
(* is an Instance of the target class itself, never of the instance's own  *)
(* class or of a class in the middle of a path (unless that class is the   *)
(* target); so is every element map_instance_to_direct_supertypes returns. *)
(***************************************************************************)
C23_TargetClass ==
    (Called("map_instance_to_supertypes") \/ Called("map_instance_to_direct_supertypes"))
        => /\ out.exc = "none"
           /\ \A i \in 1..Len(out.ret) :
                /\ out.ret[i].kind = "Instance"
                /\ out.ret[i].type = superclass

\* the path K, Base, Root passes through Base; the result is of Root
C23_Witness ==
    /\ Called("map_instance_to_supertypes")
    /\ instance = Instance("K", <<str>>)
    /\ superclass = "Root"
    /\ Paths = << <<"Base", "Root">> >>
    /\ out.branch = "result"
    /\ Len(out.ret) = 1
    /\ out.ret[1].type = "Root"

\* class s is reached from class k by one or more base edges
Reachable(cls, k, s) == s \in Above(cls, BaseClasses(cls, k), Cardinality(DOMAIN cls))

RECURSIVE FirstChain(_, _, _)
\* from class k, reaching class s: the earliest declared base that is s or
\* from which s is reached, and from that base on the same choice again
FirstChain(cls, k, s) ==
    LET bases == cls[k].bases
        leads(i) == bases[i].type = s \/ Reachable(cls, bases[i].type, s)
        first == CHOOSE i \in 1..Len(bases) : leads(i) /\ \A j \in 1..(i - 1) : ~leads(j)
        b == bases[first].type
    IN  IF b = s THEN <<b>> ELSE <<b>> \o FirstChain(cls, b, s)

OneInstantiation == map_instance_to_supertype(classes, instance, superclass)

(***************************************************************************)
(* C25, as claimed.  No identity case in map_instance_to_supertypes: for   *)
(* the instance's own class as the target it finds no path and returns     *)
(* the one dummy, which, when the class has type variables, differs from   *)
(* the instance, the result of map_instance_to_supertype; the instance is  *)
(* not an element of the list.  Violated by an instance whose arguments    *)
(* are the from_error dynamic type, one per type variable (Root<Any>):     *)
(* the dummy is that very instance.                                        *)
(***************************************************************************)
C25_Original ==
    (Called("map_instance_to_supertypes") /\ instance.type = superclass)
        => /\ Paths = <<>>
           /\ out.branch = "dummy"
           /\ out.ret = <<ErrorDummy>>
           /\ TargetArity > 0
                => /\ OneInstantiation.ret = instance
                   /\ out.ret # <<OneInstantiation.ret>>
                   /\ OneInstantiation.ret \notin Range(out.ret)

(***************************************************************************)
(* C25.  No identity case in map_instance_to_supertypes: for the           *)
(* instance's own class as the target it finds no path and returns the     *)
(* one dummy, while map_instance_to_supertype returns the instance.  The   *)
(* instance is not an element of the list, unless it is itself the class   *)
(* applied to from_error dynamic types, one per type variable (which it    *)
(* always is for a class without type variables): then the list holds      *)
(* exactly the instance.                                                   *)
(***************************************************************************)
C25_NoIdentityCase ==
    (Called("map_instance_to_supertypes") /\ instance.type = superclass)
        => /\ Paths = <<>>
           /\ out.branch = "dummy"
           /\ out.ret = <<ErrorDummy>>
           /\ OneInstantiation.ret = instance
           /\ OneInstantiation.branch = "identity"
           /\ instance # ErrorDummy
                => /\ out.ret # <<OneInstantiation.ret>>
                   /\ OneInstantiation.ret \notin Range(out.ret)
           /\ instance = ErrorDummy => out.ret = <<OneInstantiation.ret>>
           /\ (TargetArity = 0 /\ ArityMatches) => instance = ErrorDummy

\* Root<int> mapped to Root: the list holds Root<Any>, not Root<int>
C25_Witness ==
    /\ Called("map_instance_to_supertypes")
    /\ instance = Instance("Root", <<int>>)
    /\ superclass = "Root"
    /\ out.ret = <<Instance("Root", <<AnyType(from_error)>>)>>
    /\ OneInstantiation.ret = Instance("Root", <<int>>)

(***************************************************************************)
(* C26.  The no-parameters fast path agrees with the general path: for a   *)
(* target without type variables and an instance of another class,         *)
(* whether the target is reached from it or not, map_instance_to_supertype *)
(* returns through lines 34-36 the target applied to no argument, and      *)
(* every element of the list map_instance_to_supertypes returns equals it. *)
(***************************************************************************)
C26_FastPathAgrees ==
    (TargetArity = 0 /\ instance.type # superclass)
        => /\ Called("map_instance_to_supertypes")
                => /\ OneInstantiation.branch = "no_type_vars"
                   /\ OneInstantiation.ret = Instance(superclass, <<>>)
                   /\ Len(out.ret) >= 1
                   /\ \A i \in 1..Len(out.ret) : out.ret[i] = OneInstantiation.ret
           /\ Called("map_instance_to_supertype")
                => /\ out.branch = "no_type_vars"
                   /\ \A i \in 1..Len(AllInstantiations.ret) :
                         AllInstantiations.ret[i] = out.ret

\* builtins.object is reached from D through A and through B: the two
\* elements of the list are the instance the fast path returns
C26_Witness ==
    /\ Called("map_instance_to_supertypes")
    /\ instance = Instance("D", <<str>>)
    /\ superclass = "builtins.object"
    /\ Len(Paths) = 2
    /\ out.ret = <<object, object>>
    /\ OneInstantiation.branch = "no_type_vars"
    /\ OneInstantiation.ret = object

RECURSIVE TypeVarIds(_)
\* the ids of the type variables a type expression mentions
TypeVarIds(typ) ==
    CASE typ.kind = "TypeVar" -> {typ.id}
      [] typ.kind = "Instance" -> UNION {TypeVarIds(typ.args[i]) : i \in DOMAIN typ.args}
      [] typ.kind = "Tuple" -> UNION {TypeVarIds(typ.items[i]) : i \in DOMAIN typ.items}
      [] OTHER -> {}

\* every base edge mentions only type variables that its class binds
EdgesClosed(cls) ==
    \A k \in DOMAIN cls : \A i \in 1..Len(cls[k].bases) :
        TypeVarIds(cls[k].bases[i]) \subseteq Range(cls[k].defn_type_vars)

\* no argument of the instance mentions a type variable
GroundArguments == \A i \in 1..Len(instance.args) : TypeVarIds(instance.args[i]) = {}

(***************************************************************************)
(* C27.  No type variable leaks: for an instance (one argument per type    *)
(* variable of its class) whose arguments mention no type variable, over   *)
(* a class table whose base edges mention only the type variables of       *)
(* their own class, no element of the list map_instance_to_supertypes      *)
(* returns mentions a type variable: every step replaces all type          *)
(* variables of the class it leaves.                                       *)
(***************************************************************************)
C27_NoTypeVariableLeak ==
    (/\ Called("map_instance_to_supertypes")
     /\ ArityMatches
     /\ GroundArguments
     /\ EdgesClosed(classes))
        => /\ out.exc = "none"
           /\ \A i \in 1..Len(out.ret) : TypeVarIds(out.ret[i]) = {}

\* M<str, int>, whose edge to Two is Two<T, list[S]>, mapped to Two
C27_Witness ==
    /\ Called("map_instance_to_supertypes")
    /\ instance = Instance("M", <<str, int>>)
    /\ superclass = "Two"
    /\ TypeVarIds(classes["M"].bases[1]) = {1, 2}
    /\ EdgesClosed(classes)
    /\ out.ret = <<Instance("Two", <<int, list_of(str)>>)>>

RECURSIVE Mentions(_, _)
\* the type expression is x or has x among its components
Mentions(typ, x) ==
    \/ typ = x
    \/ typ.kind = "Instance" /\ \E i \in DOMAIN typ.args : Mentions(typ.args[i], x)
    \/ typ.kind = "Tuple" /\ \E i \in DOMAIN typ.items : Mentions(typ.items[i], x)

\* the list `types` of map_instance_to_supertypes before the step number
\* j + 1 of the path (line 47)
WorkingList(path, j) == WalkPath(classes, <<instance>>, SubSeq(path, 1, j))

\* the class the path is at before its step number j + 1
ClassLeft(path, j) == IF j = 0 THEN instance.type ELSE path[j]

(***************************************************************************)
(* C28.  The unannotated fallback is not reached from                      *)
(* map_instance_to_supertypes: at every step of every path, each instance  *)
(* in the working list is of the class the path is leaving (the instance's *)
(* class at the first step), the class the step goes to is a direct base   *)
(* of it, and map_instance_to_direct_supertypes returns expanded base      *)
(* edges, not the implicit instantiation.  A result of                     *)
(* map_instance_to_supertypes mentions the dynamic type tagged unannotated *)
(* only if an argument of the instance or a base edge does.                *)
(***************************************************************************)
C28_FallbackUnreachable ==
    Called("map_instance_to_supertypes")
        => /\ \A p \in 1..Len(Paths) : \A j \in 0..(Len(Paths[p]) - 1) :
                LET types == WorkingList(Paths[p], j)
                IN  /\ Len(types) >= 1
                    /\ \A i \in 1..Len(types) :
                         /\ types[i].type = ClassLeft(Paths[p], j)
                         /\ Paths[p][j + 1] \in BaseClasses(classes, types[i].type)
                         /\ map_instance_to_direct_supertypes(
                                classes, types[i], Paths[p][j + 1]).branch = "result"
           /\ (\E i \in 1..Len(out.ret) : Mentions(out.ret[i], AnyType(unannotated)))
                => \/ \E i \in 1..Len(instance.args) :
                         Mentions(instance.args[i], AnyType(unannotated))
                   \/ \E k \in DOMAIN classes : \E i \in 1..Len(classes[k].bases) :
                         Mentions(classes[k].bases[i], AnyType(unannotated))

\* K<Any> (unannotated) mapped to Root along Base: the edges Base<list[T]>
\* and Root<T> are found at both steps, the marker comes from the argument
C28_Witness ==
    /\ Called("map_instance_to_supertypes")
    /\ instance = Instance("K", <<AnyType(unannotated)>>)
    /\ superclass = "Root"
    /\ Paths = << <<"Base", "Root">> >>
    /\ WorkingList(Paths[1], 1) = <<Instance("Base", <<list_of(AnyType(unannotated))>>)>>
    /\ map_instance_to_direct_supertypes(classes, WorkingList(Paths[1], 1)[1], "Root").branch
         = "result"
    /\ out.ret = <<Instance("Root", <<list_of(AnyType(unannotated))>>)>>

RECURSIVE Sum(_)
\* the sum of a sequence of numbers
Sum(ns) == IF ns = <<>> THEN 0 ELSE Head(ns) + Sum(Tail(ns))

(***************************************************************************)
(* C29.  Result count: with at least one derivation path, the list         *)
(* map_instance_to_supertypes returns has as many elements as the sum,     *)
(* over the paths class_derivation_paths enumerates, of the product, over  *)
(* the steps of the path, of the number of base edges from the class left  *)
(* to the class the step goes to; when no class on the paths names a base  *)
(* twice, that is the number of paths.  Dup, naming P twice, has two       *)
(* (equal) paths to Root of two instantiations each: four elements.        *)
(***************************************************************************)
C29_ResultCount ==
    (Called("map_instance_to_supertypes") /\ Paths # <<>>)
        => /\ out.exc = "none"
           /\ Len(out.ret) = Sum([p \in 1..Len(Paths) |->
                                     EdgeChains(classes, instance.type, Paths[p])])
           /\ (\A p \in 1..Len(Paths) : NoDuplicateEdges(classes, instance.type, Paths[p]))
                => Len(out.ret) = Len(Paths)
           /\ instance.type = "Dup" /\ superclass = "Root" => Len(out.ret) = 4

\* Dup<str> mapped to Root
C29_Witness ==
    /\ Called("map_instance_to_supertypes")
    /\ instance = Instance("Dup", <<str>>)
    /\ superclass = "Root"
    /\ Len(Paths) = 2
    /\ EdgeChains(classes, "Dup", Paths[1]) = 2
    /\ Len(out.ret) = 4

====
